---------------------------- MODULE Spec2Model ----------------------------
(***************************************************************************)
(* The library scanner of myNewMangaUI (package scan), the SQLite store it *)
(* reconciles into (package db, migration 0001_bootstrap.sql) and the      *)
(* library listing handler (package api) that reads the store while a scan *)
(* runs.                                                                   *)
(*                                                                         *)
(* A file or directory name is a TLA+ string; its bytes are given by       *)
(* Bytes.  A path is the sequence of its components.  A table of the store *)
(* is a set of rows; the uniqueness constraints of the schema are checked  *)
(* by the statements, as SQLite checks them.                               *)
(***************************************************************************)
EXTENDS Integers, Sequences, FiniteSets, TLC

\* ------------------------------------------------------------------ bounds
\* Scan is invoked at most MaxScans times.
MaxScans == 2
\* Files are added to or removed from chapter directories at most MaxFsOps times.
MaxFsOps == 2
\* At most MaxFaults storage operations fail with a storage fault.
MaxFaults == 1
\* At most MaxFsErrs directory reads or walks fail with a filesystem error.
MaxFsErrs == 1
\* Other subsystems (cover choice, reading progress) write at most MaxEnvWrites times.
MaxEnvWrites == 1
\* The library handler serves at most MaxReads requests.
MaxReads == 1
\* The embedded migration directory holds MaxMigrations files.
MaxMigrations == 2
\* OpenAndMigrate is called at most MaxOpens times on the same database file.
MaxOpens == 2

\* ------------------------------------------------------------ names, bytes
\* The bytes (ASCII) of every name that occurs in the modelled library.
Bytes ==
    [n \in {"lib", "lib2", ".", "A", "B", "E", "c1", "c2",
            "2.jpg", "10.jpg", "n.txt", "z.txt",
            "Chapter 12", "Ch. 4.5", "Oneshot", "ch10.5", "v2 ch3", "CH  07",
            "1.5.3", "10.", "chapter", "Extra.50"} |->
        CASE n = "lib"    -> <<108, 105, 98>>
          [] n = "lib2"   -> <<108, 105, 98, 50>>
          [] n = "."      -> <<46>>
          [] n = "A"      -> <<65>>
          [] n = "B"      -> <<66>>
          [] n = "E"      -> <<69>>
          [] n = "c1"     -> <<99, 49>>
          [] n = "c2"     -> <<99, 50>>
          [] n = "2.jpg"  -> <<50, 46, 106, 112, 103>>
          [] n = "10.jpg" -> <<49, 48, 46, 106, 112, 103>>
          [] n = "n.txt"  -> <<110, 46, 116, 120, 116>>
          [] n = "z.txt"  -> <<122, 46, 116, 120, 116>>
          [] n = "Chapter 12" -> <<67, 104, 97, 112, 116, 101, 114, 32, 49, 50>>
          [] n = "Ch. 4.5"    -> <<67, 104, 46, 32, 52, 46, 53>>
          [] n = "Oneshot"    -> <<79, 110, 101, 115, 104, 111, 116>>
          [] n = "ch10.5"     -> <<99, 104, 49, 48, 46, 53>>
          [] n = "v2 ch3"     -> <<118, 50, 32, 99, 104, 51>>
          [] n = "CH  07"     -> <<67, 72, 32, 32, 48, 55>>
          [] n = "1.5.3"      -> <<49, 46, 53, 46, 51>>
          [] n = "10."        -> <<49, 48, 46>>
          [] n = "chapter"    -> <<99, 104, 97, 112, 116, 101, 114>>
          [] n = "Extra.50"   -> <<69, 120, 116, 114, 97, 46, 53, 48>>]

\* strings.ToLower on one byte, and on a byte string
LowerByte(b) == IF b >= 65 /\ b <= 90 THEN b + 32 ELSE b

ToLower(s) == [i \in 1..Len(s) |-> LowerByte(s[i])]

IsDigit(b) == b >= 48 /\ b <= 57

\* the < of Go strings: bytewise lexicographic
RECURSIVE StrLess(_, _)
StrLess(a, b) ==
    IF b = <<>> THEN FALSE
    ELSE IF a = <<>> THEN TRUE
    ELSE IF a[1] # b[1] THEN a[1] < b[1]
    ELSE StrLess(Tail(a), Tail(b))

\* strconv.Atoi of a run of digits (the runs of the model fit an int)
RECURSIVE Atoi(_)
Atoi(ds) ==
    IF ds = <<>> THEN 0
    ELSE 10 * Atoi(SubSeq(ds, 1, Len(ds) - 1)) + (ds[Len(ds)] - 48)

\* the decimal digits of n, without padding
RECURSIVE Digits(_)
Digits(n) ==
    IF n < 10 THEN <<48 + n>>
    ELSE Append(Digits(n \div 10), 48 + (n % 10))

\* the width of fmt.Sprintf("%08d", n)
PadWidth == 8

\* fmt.Sprintf("%08d", n): zero-padded to at least PadWidth digits
Pad08(n) ==
    LET d == Digits(n)
    IN  IF Len(d) >= PadWidth THEN d
        ELSE [i \in 1..(PadWidth - Len(d)) |-> 48] \o d

\* naturalKey: lower-case, every digit run replaced by its padded value
RECURSIVE NaturalKeyFrom(_, _, _)
NaturalKeyFrom(rest, segment, out) ==
    LET flushed == IF segment = <<>> THEN out ELSE out \o Pad08(Atoi(segment))
    IN  IF rest = <<>> THEN flushed
        ELSE IF IsDigit(rest[1])
             THEN NaturalKeyFrom(Tail(rest), Append(segment, rest[1]), out)
             ELSE NaturalKeyFrom(Tail(rest), <<>>, Append(flushed, rest[1]))

naturalKey(input) == NaturalKeyFrom(ToLower(input), <<>>, <<>>)

naturalLess(a, b) == StrLess(naturalKey(a), naturalKey(b))

\* ------------------------------------------------- chapter-number extraction
\* sql.NullFloat64{}: no number
NullNumber == [valid |-> FALSE, num |-> 0, den |-> 1]

\* \s of the pattern: tab, newline, form feed, carriage return, space
IsSpace(b) == b \in {9, 10, 12, 13, 32}

\* the first position at or after i that holds no digit, and no space
RECURSIVE DigitsEnd(_, _)
DigitsEnd(s, i) == IF i <= Len(s) /\ IsDigit(s[i]) THEN DigitsEnd(s, i + 1) ELSE i

RECURSIVE SpacesEnd(_, _)
SpacesEnd(s, i) == IF i <= Len(s) /\ IsSpace(s[i]) THEN SpacesEnd(s, i + 1) ELSE i

\* (?i) literal w at position i of s
LiteralAt(s, i, w) ==
    /\ i + Len(w) - 1 <= Len(s)
    /\ ToLower(SubSeq(s, i, i + Len(w) - 1)) = w

\* the group (\d+(?:\.\d+)?) at position i of s: the text it captures, empty
\* if it does not match there
NumberAt(s, i) ==
    IF i > Len(s) \/ ~IsDigit(s[i]) THEN <<>>
    ELSE LET e == DigitsEnd(s, i)
         IN  IF e < Len(s) /\ s[e] = 46 /\ IsDigit(s[e + 1])
             THEN SubSeq(s, i, DigitsEnd(s, e + 1) - 1)
             ELSE SubSeq(s, i, e - 1)

\* chapterNumberPattern at position i of s: the label "chapter" or "ch" with
\* the spaces after it is tried first, then no label; the captured number
MatchAt(s, i) ==
    LET long == <<99, 104, 97, 112, 116, 101, 114>>
        short == <<99, 104>>
        withLong == IF LiteralAt(s, i, long)
                    THEN NumberAt(s, SpacesEnd(s, i + Len(long))) ELSE <<>>
        withShort == IF LiteralAt(s, i, short)
                     THEN NumberAt(s, SpacesEnd(s, i + Len(short))) ELSE <<>>
    IN  IF withLong # <<>> THEN withLong
        ELSE IF withShort # <<>> THEN withShort
        ELSE NumberAt(s, i)

\* FindStringSubmatch: the leftmost match, empty if there is none
RECURSIVE FindFrom(_, _)
FindFrom(s, i) ==
    IF i > Len(s) THEN <<>>
    ELSE IF MatchAt(s, i) # <<>> THEN MatchAt(s, i)
    ELSE FindFrom(s, i + 1)

\* ten to the power k
RECURSIVE Pow10(_)
Pow10(k) == IF k = 0 THEN 1 ELSE 10 * Pow10(k - 1)

\* a decimal fraction num/den in lowest decimal terms
RECURSIVE Reduce(_, _)
Reduce(num, den) ==
    IF den > 1 /\ num % 10 = 0 THEN Reduce(num \div 10, den \div 10)
    ELSE [valid |-> TRUE, num |-> num, den |-> den]

\* strconv.ParseFloat of digits, or digits "." digits (the numbers of the
\* model are short: none is out of range, none is rounded)
ParseFloat(m) ==
    LET e == DigitsEnd(m, 1)
        frac == IF e > Len(m) THEN <<>> ELSE SubSeq(m, e + 1, Len(m))
    IN  Reduce(Atoi(SubSeq(m, 1, e - 1) \o frac), Pow10(Len(frac)))

\* faulty variant of parseChapterNumber: the last digit run of the name
parseChapterNumberLast(name) ==
    IF \A i \in 1..Len(name) : ~IsDigit(name[i]) THEN NullNumber
    ELSE LET last == CHOOSE i \in 1..Len(name) :
                        /\ IsDigit(name[i])
                        /\ \A j \in (i + 1)..Len(name) : ~IsDigit(name[j])
             first == CHOOSE i \in 1..last :
                        /\ \A j \in i..last : IsDigit(name[j])
                        /\ (i = 1 \/ ~IsDigit(name[i - 1]))
         IN  ParseFloat(SubSeq(name, first, last))

\* parseChapterNumber: lines 414-424
parseChapterNumber(name) ==
    LET match == FindFrom(name, 1)
    IN  IF match = <<>> THEN NullNumber ELSE ParseFloat(match)

\* filepath.Ext: the suffix from the last dot of the name, empty if none
RECURSIVE ExtFrom(_, _)
ExtFrom(s, i) ==
    IF i = 0 THEN <<>>
    ELSE IF s[i] = 46 THEN SubSeq(s, i, Len(s))
    ELSE ExtFrom(s, i - 1)

Ext(s) == ExtFrom(s, Len(s))

\* the extensions isImageFile accepts: .jpg .jpeg .png .webp
ImageExts ==
    { <<46, 106, 112, 103>>, <<46, 106, 112, 101, 103>>,
      <<46, 112, 110, 103>>, <<46, 119, 101, 98, 112>> }

isImageFile(name) == ToLower(Ext(Bytes[name])) \in ImageExts

\* filepath.Clean on a path of components: "." components are dropped
Clean(path) == SelectSeq(path, LAMBDA c : c # ".")

\* filepath.Join(dir, name)
Join(dir, name) == Clean(Append(dir, name))

\* filepath.Base
Base(path) == path[Len(path)]

\* faulty variant of stableID: the path is hashed as it is passed
stableIDRaw(prefix, path) == <<prefix, path>>

\* stableID: prefix + "_" + hex(sha1(Clean(path))); the hash is taken to be
\* collision free, so the ID is the pair of the prefix and the cleaned path
stableID(prefix, path) == <<prefix, Clean(path)>>


\* ---------------------------------------------------------------- sorting
\* the orderings of the finite set S as sequences
Perms(S) ==
    { s \in [1..Cardinality(S) -> S] :
        \A i, j \in 1..Cardinality(S) : i # j => s[i] # s[j] }

\* sort.Slice: an ordering of S in which no element is less than one before it
SortSlice(S, Less(_, _)) ==
    CHOOSE s \in Perms(S) :
        \A i, j \in 1..Cardinality(S) : i < j => ~Less(s[j], s[i])

\* ------------------------------------------------------------- the library
\* cfg.Storage.LibraryRoots: the first root is configured with a "." segment
libraryRoots == << <<"lib", ".">>, <<"lib2">> >>

\* os.ReadDir of a root: its entries in name order, directories and files
RootEntries(root) ==
    IF root = <<"lib">>
    THEN << [name |-> "A", isDir |-> TRUE], [name |-> "E", isDir |-> TRUE],
            [name |-> "z.txt", isDir |-> FALSE] >>
    ELSE << [name |-> "B", isDir |-> TRUE] >>

\* the chapter directories of the library; title E has none
ChapterPaths ==
    { <<"lib", "A", "c1">>, <<"lib", "A", "c2">>, <<"lib2", "B", "c1">> }

TitlePaths == { <<"lib", "A">>, <<"lib", "E">>, <<"lib2", "B">> }

\* the image files that come and go in chapter directories
ImageNames == {"2.jpg", "10.jpg"}

\* the directory listing of every chapter before the first scan
InitFs ==
    [c \in ChapterPaths |->
        IF c = <<"lib", "A", "c1">> THEN [files |-> {"2.jpg", "n.txt"}, mtime |-> 1]
        ELSE IF c = <<"lib", "A", "c2">> THEN [files |-> {}, mtime |-> 1]
        ELSE [files |-> {"10.jpg"}, mtime |-> 1]]

\* readChapterDirs: the subdirectories of a title, sorted by lower-case name
readChapterDirs(mangaPath) ==
    LET dirs == { Base(c) : c \in { c \in ChapterPaths : SubSeq(c, 1, Len(c) - 1) = mangaPath } }
        less(a, b) == StrLess(ToLower(Bytes[a]), ToLower(Bytes[b]))
    IN  SortSlice(dirs, less)

\* pageMeta.width and pageMeta.height as collectChapter leaves them (lines
\* 316-322 set neither): the zero sql.NullInt64, stored as NULL
NoDimension == 0

\* faulty variant of PageIndexOf: the index counts from one
PageIndexFromOne(i) == i

\* the zero-based page index collectChapter gives the i-th page of the sorted list
PageIndexOf(i) == i - 1

\* collectChapter's page list: the image files of the listing, sorted by
\* naturalLess on the base name, indexed in that order
CollectPages(chapterPath, files) ==
    LET imgs == { f \in files : isImageFile(f) }
        less(a, b) == naturalLess(Bytes[a], Bytes[b])
        sorted == SortSlice(imgs, less)
    IN  [i \in 1..Len(sorted) |->
            [id    |-> stableID("page", Join(chapterPath, sorted[i])),
             path  |-> Join(chapterPath, sorted[i]),
             index |-> PageIndexOf(i),
             width |-> NoDimension, height |-> NoDimension]]

\* collectChapter's chapterMeta: lines 337-349
ChapterMetaOf(chapterPath, pgs, mtime) ==
    [path |-> chapterPath, title |-> Base(chapterPath),
     number |-> parseChapterNumber(Bytes[Base(chapterPath)]),
     pageCount |-> Len(pgs), mtime |-> mtime]

\* ---------------------------------------------------------------- the store
\* NULL of an id column, and of a timestamp or count column
NullId == <<>>
NullTime == 0
\* NULL of page.checksum
NullText == ""

EmptyDb == [manga |-> {}, chapter |-> {}, page |-> {}, progress |-> {}, thumbs |-> {}]

Ok(db) == [ok |-> TRUE, db |-> db]
Err(db) == [ok |-> FALSE, db |-> db]

\* faulty variant of upsertManga: INSERT OR REPLACE, which rewrites the whole
\* row of a path already stored
upsertMangaReplace(db, id, title, path, now) ==
    Ok([db EXCEPT !.manga = { m \in db.manga : m.path # path /\ m.id # id } \cup
            { [id |-> id, title |-> title, title_sort |-> ToLower(Bytes[title]),
               path |-> path, cover_page_id |-> NullId,
               chapter_count |-> 0, page_count |-> 0,
               created_at |-> now, updated_at |-> now,
               last_scan_at |-> NullTime] }])

\* upsertManga: INSERT INTO manga ... ON CONFLICT(path) DO UPDATE SET title,
\* title_sort, updated_at.  id is the PRIMARY KEY.
upsertManga(db, id, title, path, now) ==
    LET hit == { m \in db.manga : m.path = path }
    IN  IF hit # {}
        THEN Ok([db EXCEPT !.manga = (db.manga \ hit) \cup
                    { [m EXCEPT !.title = title,
                                !.title_sort = ToLower(Bytes[title]),
                                !.updated_at = now] : m \in hit }])
        ELSE IF \E m \in db.manga : m.id = id
        THEN Err(db)
        ELSE Ok([db EXCEPT !.manga = db.manga \cup
                    { [id |-> id, title |-> title, title_sort |-> ToLower(Bytes[title]),
                       path |-> path, cover_page_id |-> NullId,
                       chapter_count |-> 0, page_count |-> 0,
                       created_at |-> now, updated_at |-> now,
                       last_scan_at |-> NullTime] }])

\* upsertChapter: INSERT INTO chapter ... ON CONFLICT(path) DO UPDATE SET title,
\* number, page_count, file_mtime, updated_at.  manga_id REFERENCES manga(id).
upsertChapter(db, id, mangaID, chapter, now) ==
    LET hit == { c \in db.chapter : c.path = chapter.path }
    IN  IF hit # {}
        THEN Ok([db EXCEPT !.chapter = (db.chapter \ hit) \cup
                    { [c EXCEPT !.title = chapter.title,
                                !.number = chapter.number,
                                !.page_count = chapter.pageCount,
                                !.file_mtime = chapter.mtime,
                                !.updated_at = now] : c \in hit }])
        ELSE IF \/ \E c \in db.chapter : c.id = id
                \/ ~ \E m \in db.manga : m.id = mangaID
        THEN Err(db)
        ELSE Ok([db EXCEPT !.chapter = db.chapter \cup
                    { [id |-> id, manga_id |-> mangaID, title |-> chapter.title,
                       number |-> chapter.number,
                       path |-> chapter.path, page_count |-> chapter.pageCount,
                       file_mtime |-> chapter.mtime,
                       created_at |-> now, updated_at |-> now] }])

\* faulty variant of upsertPage: a plain INSERT, without the ON CONFLICT clause
upsertPageInsertOnly(db, chapterID, page) ==
    IF \/ \E p \in db.page : p.path = page.path \/ p.id = page.id
       \/ \E p \in db.page : p.chapter_id = chapterID /\ p.page_index = page.index
       \/ ~ \E c \in db.chapter : c.id = chapterID
    THEN Err(db)
    ELSE Ok([db EXCEPT !.page = db.page \cup
                { [id |-> page.id, chapter_id |-> chapterID,
                   page_index |-> page.index, path |-> page.path,
                   width |-> page.width, height |-> page.height,
                   checksum |-> NullText] }])

\* one statement of upsertPages: INSERT INTO page ... ON CONFLICT(path) DO
\* UPDATE SET chapter_id, page_index, mime, width, height, size_bytes,
\* file_mtime; checksum is inserted as NULL and is not in the SET list; mime,
\* size_bytes and file_mtime are not modelled.  The conflict target (path) is
\* checked first; id is the PRIMARY KEY and (chapter_id, page_index) is
\* UNIQUE, and a row that breaks either fails the statement.
upsertPage(db, chapterID, page) ==
    LET hit == { p \in db.page : p.path = page.path }
        others == db.page \ hit
        clash == \E o \in others : o.chapter_id = chapterID /\ o.page_index = page.index
    IN  IF hit # {}
        THEN IF clash
             THEN Err(db)
             ELSE Ok([db EXCEPT !.page = others \cup
                        { [p EXCEPT !.chapter_id = chapterID,
                                    !.page_index = page.index,
                                    !.width = page.width,
                                    !.height = page.height] : p \in hit }])
        ELSE IF \/ clash
                \/ \E p \in db.page : p.id = page.id
                \/ ~ \E c \in db.chapter : c.id = chapterID
        THEN Err(db)
        ELSE Ok([db EXCEPT !.page = db.page \cup
                    { [id |-> page.id, chapter_id |-> chapterID,
                       page_index |-> page.index, path |-> page.path,
                       width |-> page.width, height |-> page.height,
                       checksum |-> NullText] }])

\* faulty variant of upsertPages: the chapter's rows of files that are not in
\* the page list are deleted first
upsertPagesPrune(db, chapterID, pages) ==
    LET paths == { pages[i].path : i \in 1..Len(pages) }
    IN  Ok([db EXCEPT !.page =
                { p \in db.page : p.chapter_id # chapterID } \cup
                { [id |-> pages[i].id, chapter_id |-> chapterID,
                   page_index |-> pages[i].index, path |-> pages[i].path,
                   width |-> pages[i].width, height |-> pages[i].height,
                   checksum |-> NullText] : i \in 1..Len(pages) }])

\* upsertPages: the statements in page order, stopping at the first error
RECURSIVE upsertPages(_, _, _)
upsertPages(db, chapterID, pages) ==
    IF pages = <<>> THEN Ok(db)
    ELSE LET r == upsertPage(db, chapterID, Head(pages))
         IN  IF r.ok THEN upsertPages(r.db, chapterID, Tail(pages)) ELSE r

\* faulty variant of finalizeMangaScan: last_scan_at is set to the time of the scan
finalizeMangaScanStamp(db, mangaID, chapterCount, pageCount, mangaMTime, now) ==
    Ok([db EXCEPT !.manga =
            { IF m.id = mangaID
              THEN [m EXCEPT !.chapter_count = chapterCount,
                             !.page_count = pageCount,
                             !.last_scan_at = now,
                             !.updated_at = now]
              ELSE m : m \in db.manga }])

\* finalizeMangaScan: UPDATE manga SET chapter_count, page_count, last_scan_at,
\* updated_at WHERE id = ?
finalizeMangaScan(db, mangaID, chapterCount, pageCount, mangaMTime, now) ==
    Ok([db EXCEPT !.manga =
            { IF m.id = mangaID
              THEN [m EXCEPT !.chapter_count = chapterCount,
                             !.page_count = pageCount,
                             !.last_scan_at = mangaMTime,
                             !.updated_at = now]
              ELSE m : m \in db.manga }])

\* ------------------------------------------------------------------ state
VARIABLES
    fs,             \* chapter path -> [files, mtime]: the directory listings
    fsOps,          \* number of file additions and removals so far
    committed,      \* the store as committed
    store,          \* the store as the single connection sees it (with the open
                    \* transaction's writes)
    txOpen,         \* Scan's transaction is open and holds the connection
    pc,             \* where Scan is
    ri, ei, ci,     \* index of the current root, root entry, chapter directory
    chapterCount, mangaPageCount, mangaMTime,   \* Scan's per-title totals
    chMeta, pages,  \* collectChapter's result for the current chapter
    result,         \* what the last Scan returned
    run,            \* number of Scan invocations so far; also the clock of CURRENT_TIMESTAMP
    cancelled,      \* ctx of the running Scan is done
    faults, fsErrs, envWrites,                  \* counters of injected events
    rpc, rreq, total, items, rwait, reads,      \* the library handler
    txBase,         \* history: the committed store when the transaction began
    txChapters,     \* history: chapters upserted by the open transaction
    txLog,          \* history: the writes of Scan's transaction since it began, in
                    \* order; empty once Scan has rolled it back
    began,          \* history: titles this run tried to begin a transaction for
    failedTitle,    \* history: the title at which this run failed
    clean,          \* history: no fault, filesystem error or cancellation in this run
    runFs,          \* history: the directory listings when this run started
    prev,           \* history: how the previous run ended
    runBase,        \* history: the committed store when this run started
    cancelLeft,     \* history: titles were unfinished when ctx was cancelled
    uniqueViolated, \* history: a page upsert of this run broke a uniqueness constraint
    readDirty,      \* history: a handler query ran while a transaction was open
    skipped,        \* history: roots, titles and chapters whose read failed in this run
    collected,      \* history: the chapters collected with pages for the current title
    flight,         \* history: "cancelled" once the ctx was cancelled while collectChapter
                    \* was running (its walk had no file visited yet), then how that
                    \* collection ended: "aborted" by ctx.Err(), "failed", "completed"
    startedAtCancel,\* history: titles whose processing had started when ctx was cancelled
    opc, oti, ores, \* a second invocation of Scan: where it is, its title, its result
    oruns,          \* number of second invocations so far
    ocommits,       \* history: the titles the second invocation has committed
    overlap,        \* history: the second invocation started while the first was running
    call,           \* the last call of a pure function: its name, arguments and result
    mig             \* OpenAndMigrate: where it is, the database file, its transaction

fsVars == <<fs, fsOps>>
dbVars == <<committed, store, txOpen>>
posVars == <<ri, ei, ci>>
totVars == <<chapterCount, mangaPageCount, mangaMTime>>
colVars == <<chMeta, pages>>
scanVars == <<pc, posVars, totVars, colVars, result, run>>
envVars == <<cancelled, faults, fsErrs, envWrites>>
readerVars == <<rpc, rreq, total, items, rwait, reads>>
skipVars == <<skipped, collected, flight, startedAtCancel>>
histVars == <<txBase, txChapters, txLog, began, failedTitle, clean, runFs, prev, runBase,
              cancelLeft, uniqueViolated, readDirty, skipVars>>
otherVars == <<opc, oti, ores, oruns, ocommits, overlap>>
auxVars == <<otherVars, call, mig>>
vars == <<fsVars, dbVars, scanVars, envVars, readerVars, histVars, auxVars>>

NoMeta == [path |-> <<>>, title |-> "", number |-> NullNumber, pageCount |-> 0,
           mtime |-> NullTime]

\* the rows of a store the scanner computes: IDs, paths, parents, page indices
ScanRows(db) ==
    [manga   |-> { [id |-> m.id, path |-> m.path] : m \in db.manga },
     chapter |-> { [id |-> c.id, path |-> c.path, manga_id |-> c.manga_id] : c \in db.chapter },
     page    |-> { [id |-> p.id, path |-> p.path, chapter_id |-> p.chapter_id,
                    page_index |-> p.page_index] : p \in db.page }]

\* the state after construction (NewService), over the given directory listings
InitWith(listing) ==
    /\ fs = listing
    /\ fsOps = 0
    /\ committed = EmptyDb
    /\ store = EmptyDb
    /\ txOpen = FALSE
    /\ pc = "idle"
    /\ ri = 1 /\ ei = 1 /\ ci = 1
    /\ chapterCount = 0 /\ mangaPageCount = 0 /\ mangaMTime = NullTime
    /\ chMeta = NoMeta /\ pages = <<>>
    /\ result = "none"
    /\ run = 0
    /\ cancelled = FALSE
    /\ envWrites = 0
    /\ rpc = "idle" /\ rreq = [page |-> 1, limit |-> 1] /\ total = 0 /\ items = <<>>
    /\ rwait = FALSE /\ reads = 0
    /\ txBase = EmptyDb
    /\ txChapters = {}
    /\ txLog = <<>>
    /\ began = {}
    /\ failedTitle = NullId
    /\ clean = TRUE
    /\ runFs = listing
    /\ prev = [ok |-> FALSE, fs |-> listing, rows |-> ScanRows(EmptyDb)]
    /\ runBase = EmptyDb
    /\ cancelLeft = FALSE
    /\ uniqueViolated = FALSE
    /\ readDirty = FALSE
    /\ skipped = {}
    /\ collected = {}
    /\ flight = "none"
    /\ startedAtCancel = {}
    /\ opc = "idle" /\ oti = 1 /\ ores = "none" /\ oruns = 0
    /\ ocommits = {} /\ overlap = FALSE
    /\ call = [fn |-> "none"]
    /\ mig = [pc |-> "closed", vi |-> 1, opens |-> 0, faults |-> 0, cancelled |-> FALSE,
              db |-> [table |-> FALSE, ledger |-> {}, applied |-> {}],
              tx |-> [table |-> FALSE, ledger |-> {}, applied |-> {}],
              txOpen |-> FALSE, errs |-> <<>>, base |-> {}, reapplied |-> FALSE]

InitBase == InitWith(InitFs)

\* the state after construction, in a run in which storage operations may fail
\* with a storage fault
Init == InitBase /\ faults = 0 /\ fsErrs = MaxFsErrs

\* the listings a library of these directories may hold when the service is
\* constructed: any of the image files in the chapters of title A
Listings ==
    { [c \in ChapterPaths |->
          IF c = <<"lib", "A", "c1">> THEN [files |-> a \cup {"n.txt"}, mtime |-> 3]
          ELSE IF c = <<"lib", "A", "c2">> THEN [files |-> b, mtime |-> 2]
          ELSE InitFs[c]] : a \in SUBSET ImageNames, b \in SUBSET ImageNames }

\* the same, over any of these listings, in a run in which directory reads and
\* walks may fail instead
InitFsErr ==
    /\ \E listing \in Listings : InitWith(listing)
    /\ faults = MaxFaults
    /\ fsErrs = 0

\* the same, in a run in which no storage fault and no filesystem error occurs
InitQuiet == InitBase /\ faults = MaxFaults /\ fsErrs = MaxFsErrs

\* the image files of a chapter directory in a listing
ImagesOf(listing, c) == { f \in listing[c].files : isImageFile(f) }

\* ------------------------------------------------------------- environment
\* a file is added to or removed from a chapter directory between two scans;
\* the directory's modification time moves on
FsChange(c, f) ==
    /\ pc \in {"idle", "done"}
    /\ run < MaxScans
    /\ fsOps < MaxFsOps
    /\ fs' = [fs EXCEPT ![c] =
                [files |-> IF f \in fs[c].files THEN fs[c].files \ {f}
                                                ELSE fs[c].files \cup {f},
                 mtime |-> fsOps + 2]]
    /\ fsOps' = fsOps + 1
    /\ UNCHANGED <<dbVars, scanVars, envVars, readerVars, histVars, auxVars>>

\* a storage operation may fail with a storage fault
FaultChoices == IF faults < MaxFaults /\ ~cancelled THEN BOOLEAN ELSE {FALSE}

\* a directory read or walk may fail with a filesystem error
FsErrChoices == IF fsErrs < MaxFsErrs THEN BOOLEAN ELSE {FALSE}

\* --------------------------------------------------------------- Scan
\* the root, root entry, title and chapter Scan is at
curRoot == Clean(libraryRoots[ri])
curEntries == RootEntries(curRoot)
mangaPath == Join(curRoot, curEntries[ei].name)
chapterDirs == readChapterDirs(mangaPath)
chapterPath == Join(mangaPath, chapterDirs[ci])

\* what no step of Scan after its start changes
ScanFrame == UNCHANGED <<fsVars, readerVars, envWrites, run, cancelled, runFs, prev,
                         runBase, cancelLeft, readDirty, startedAtCancel, auxVars>>

NoFault == UNCHANGED <<faults, clean>>
Fault == faults' = faults + 1 /\ clean' = FALSE
NoFsErr == UNCHANGED <<fsErrs, clean>>
FsErr == fsErrs' = fsErrs + 1 /\ clean' = FALSE

\* the error of a storage operation that fails: ctx is done, or a storage fault
FailKind == IF cancelled THEN "ctxwrap" ELSE "storage"

\* return from Scan
Return(kind) == pc' = "done" /\ result' = kind

\* faulty variant of Rollback: the transaction is committed instead
RollbackCommits ==
    /\ committed' = store
    /\ txOpen' = FALSE
    /\ UNCHANGED store

\* tx.Rollback(): the transaction's writes are dropped and the connection is
\* released (nothing to do if the transaction is already gone)
Rollback ==
    /\ store' = committed
    /\ txOpen' = FALSE
    /\ UNCHANGED committed

\* faulty variant of FailTitle: the error is logged and the loop goes on
FailTitleContinue(kind) ==
    /\ Rollback
    /\ pc' = "chapter"
    /\ result' = result
    /\ failedTitle' = mangaPath

\* faulty variant of FailTitle: everything the run has committed is undone
FailTitleUndoesRun(kind) ==
    /\ committed' = runBase
    /\ store' = runBase
    /\ txOpen' = FALSE
    /\ Return(kind)
    /\ failedTitle' = mangaPath

\* a storage operation inside the title's transaction failed:
\* tx.Rollback() and return fmt.Errorf(...)
FailTitle(kind) ==
    /\ Rollback
    /\ Return(kind)
    /\ failedTitle' = mangaPath

\* faulty variant of TitleQualifies: the check of line 251 is missing
TitleAlwaysQualifies(count) == TRUE

\* line 251: the title is rolled back unless a chapter qualified
TitleQualifies(count) == count # 0

\* ctx.Err() != nil: the checks of lines 175 and 190
CtxNeverDone == FALSE

CtxDone == cancelled

\* faulty variant of TxCtxDone: the transaction goes on after its ctx is done
TxCtxIgnored == FALSE

\* the ctx of the transaction is done: tx.ExecContext(ctx, ...) and
\* tx.Commit() return its error and write nothing
TxCtxDone == cancelled

\* faulty variant of SkipRoot: the error of os.ReadDir is returned
SkipRootReturns ==
    /\ Return("storage")
    /\ UNCHANGED posVars

\* lines 181-184: a root that cannot be listed is logged and the loop goes on
\* with the next root
SkipRoot ==
    /\ ri' = ri + 1
    /\ UNCHANGED <<pc, ei, ci, result>>

\* faulty variant of SkipChapter: break, the title's other chapters are left out
SkipChapterBreaks ==
    /\ ci' = Len(chapterDirs) + 1
    /\ pc' = "chapter"

\* lines 224-230: a chapter that failed collection or has no page is skipped
\* and the loop goes on with the title's next chapter
SkipChapter ==
    /\ ci' = ci + 1
    /\ pc' = "chapter"

\* Scan is called: lines 160-172
StartScan ==
    /\ pc \in {"idle", "done"}
    /\ run < MaxScans
    /\ ~txOpen
    /\ run' = run + 1
    /\ pc' = "root"
    /\ ri' = 1 /\ ei' = 1 /\ ci' = 1
    /\ result' = "none"
    /\ cancelled' = FALSE
    /\ clean' = TRUE
    /\ began' = {}
    /\ failedTitle' = NullId
    /\ prev' = [ok |-> pc = "done" /\ clean /\ result = "ok", fs |-> runFs,
                rows |-> ScanRows(committed)]
    /\ runFs' = fs
    /\ runBase' = committed
    /\ cancelLeft' = FALSE
    /\ uniqueViolated' = FALSE
    /\ skipped' = {}
    /\ collected' = {}
    /\ flight' = "none"
    /\ startedAtCancel' = {}
    /\ UNCHANGED <<fsVars, dbVars, totVars, colVars, faults, fsErrs, envWrites,
                   readerVars, txBase, txChapters, txLog, readDirty, auxVars>>

\* the head of the loop over the roots: lines 174-184, and 269-275 after the
\* last root
RootStep ==
    /\ pc = "root"
    /\ IF ri > Len(libraryRoots)
       THEN /\ Return("ok")
            /\ UNCHANGED <<posVars, fsErrs, clean, skipped>>
       ELSE IF CtxDone
       THEN /\ Return("ctx")
            /\ UNCHANGED <<posVars, fsErrs, clean, skipped>>
       ELSE \E e \in FsErrChoices :
                IF e THEN /\ FsErr
                          /\ SkipRoot
                          /\ skipped' = skipped \cup {curRoot}
                     ELSE /\ NoFsErr
                          /\ pc' = "entry"
                          /\ ei' = 1
                          /\ UNCHANGED <<ri, ci, result, skipped>>
    /\ UNCHANGED <<dbVars, totVars, colVars, faults, txBase, txChapters, txLog, began,
                   failedTitle, uniqueViolated, collected, flight>>
    /\ ScanFrame

\* the head of the loop over a root's entries: lines 186-205
EntryStep ==
    /\ pc = "entry"
    /\ IF ei > Len(curEntries)
       THEN /\ ri' = ri + 1
            /\ pc' = "root"
            /\ UNCHANGED <<ei, ci, result, fsErrs, clean, skipped>>
       ELSE IF ~curEntries[ei].isDir
       THEN /\ ei' = ei + 1
            /\ UNCHANGED <<pc, ri, ci, result, fsErrs, clean, skipped>>
       ELSE IF CtxDone
       THEN /\ Return("ctx")
            /\ UNCHANGED <<posVars, fsErrs, clean, skipped>>
       ELSE \E e \in FsErrChoices :
                IF e \/ Len(chapterDirs) = 0
                THEN /\ IF e THEN FsErr /\ skipped' = skipped \cup {mangaPath}
                          ELSE NoFsErr /\ UNCHANGED skipped
                     /\ ei' = ei + 1
                     /\ UNCHANGED <<pc, ri, ci, result>>
                ELSE /\ NoFsErr
                     /\ pc' = "begin"
                     /\ UNCHANGED <<posVars, result, skipped>>
    /\ UNCHANGED <<dbVars, totVars, colVars, faults, txBase, txChapters, txLog, began,
                   failedTitle, uniqueViolated, collected, flight>>
    /\ ScanFrame

\* s.db.BeginTx(ctx, nil): lines 207-210
BeginTx ==
    /\ pc = "begin"
    /\ began' = began \cup {mangaPath}
    /\ \E f \in FaultChoices :
          IF cancelled \/ f
          THEN /\ IF f THEN Fault ELSE NoFault
               /\ Return(FailKind)
               /\ failedTitle' = mangaPath
               /\ UNCHANGED <<dbVars, txBase, txChapters, txLog>>
          ELSE /\ ~txOpen
               /\ NoFault
               /\ txOpen' = TRUE
               /\ txBase' = committed
               /\ txChapters' = {}
               /\ txLog' = <<>>
               /\ pc' = "manga"
               /\ UNCHANGED <<committed, store, result, failedTitle>>
    /\ UNCHANGED <<posVars, totVars, colVars, fsErrs, uniqueViolated, skipped,
                   collected, flight>>
    /\ ScanFrame

\* upsertManga and the reset of the title's totals: lines 212-219
UpsertMangaStep ==
    /\ pc = "manga"
    /\ \E f \in FaultChoices :
          LET r == upsertManga(store, stableID("manga", mangaPath),
                               curEntries[ei].name, mangaPath, run)
          IN  IF TxCtxDone \/ f \/ ~r.ok
              THEN /\ IF f THEN Fault ELSE NoFault
                   /\ FailTitle(FailKind)
                   /\ txLog' = <<>>
                   /\ UNCHANGED <<posVars, totVars, collected>>
              ELSE /\ NoFault
                   /\ store' = r.db
                   /\ txLog' = Append(txLog, <<"title", mangaPath>>)
                   /\ chapterCount' = 0
                   /\ mangaPageCount' = 0
                   /\ mangaMTime' = NullTime
                   /\ collected' = {}
                   /\ ci' = 1
                   /\ pc' = "chapter"
                   /\ UNCHANGED <<committed, txOpen, ri, ei, result, failedTitle>>
    /\ UNCHANGED <<colVars, fsErrs, txBase, txChapters, began, uniqueViolated, skipped,
                   flight>>
    /\ ScanFrame

\* the head of the loop over the title's chapters (line 221) and, after the
\* last chapter, the skip of a title without qualifying chapter: lines 251-254
ChapterStep ==
    /\ pc = "chapter"
    /\ IF ci <= Len(chapterDirs)
       THEN /\ pc' = "collect"
            /\ UNCHANGED <<dbVars, posVars, txLog>>
       ELSE IF ~TitleQualifies(chapterCount)
       THEN /\ Rollback
            /\ txLog' = <<>>
            /\ ei' = ei + 1
            /\ pc' = "entry"
            /\ UNCHANGED <<ri, ci>>
       ELSE /\ pc' = "finalize"
            /\ UNCHANGED <<dbVars, posVars, txLog>>
    /\ UNCHANGED <<totVars, colVars, result, faults, fsErrs, clean, txBase, txChapters,
                   began, failedTitle, uniqueViolated, skipped, collected, flight>>
    /\ ScanFrame

\* collectChapter (lines 295-352) and the skip of a chapter that failed or has
\* no page: lines 223-230.  The walk fails on a filesystem error, and on the
\* first file it meets once ctx is done.
CollectStep ==
    /\ pc = "collect"
    /\ \E e \in FsErrChoices :
          LET files == fs[chapterPath].files
              pgs == CollectPages(chapterPath, files)
          IN  /\ IF e THEN FsErr /\ skipped' = skipped \cup {chapterPath}
                       ELSE NoFsErr /\ UNCHANGED skipped
              /\ flight' = IF flight # "cancelled" THEN flight
                            ELSE IF e THEN "failed"
                            ELSE IF files # {} THEN "aborted"
                            ELSE "completed"
              /\ IF e \/ (cancelled /\ files # {}) \/ Len(pgs) = 0
                 THEN /\ SkipChapter
                      /\ UNCHANGED <<colVars, collected>>
                 ELSE /\ chMeta' = ChapterMetaOf(chapterPath, pgs, fs[chapterPath].mtime)
                      /\ pages' = pgs
                      /\ collected' = collected \cup {chMeta'}
                      /\ pc' = "upchapter"
                      /\ UNCHANGED ci
    /\ UNCHANGED <<dbVars, ri, ei, totVars, result, faults, txBase, txChapters, txLog, began,
                   failedTitle, uniqueViolated>>
    /\ ScanFrame

\* upsertChapter: lines 232-236
UpsertChapterStep ==
    /\ pc = "upchapter"
    /\ \E f \in FaultChoices :
          LET r == upsertChapter(store, stableID("chapter", chapterPath),
                                 stableID("manga", mangaPath), chMeta, run)
          IN  IF TxCtxDone \/ f \/ ~r.ok
              THEN /\ IF f THEN Fault ELSE NoFault
                   /\ FailTitle(FailKind)
                   /\ txLog' = <<>>
              ELSE /\ NoFault
                   /\ store' = r.db
                   /\ txLog' = Append(txLog, <<"chapter", chapterPath>>)
                   /\ pc' = "uppages"
                   /\ UNCHANGED <<committed, txOpen, result, failedTitle>>
    /\ UNCHANGED <<posVars, totVars, colVars, fsErrs, txBase, txChapters, began,
                   uniqueViolated, skipped, collected, flight>>
    /\ ScanFrame

\* upsertPages and the title's totals: lines 237-248
UpsertPagesStep ==
    /\ pc = "uppages"
    /\ \E f \in FaultChoices :
          LET r == upsertPages(store, stableID("chapter", chapterPath), pages)
          IN  IF TxCtxDone \/ f
              THEN /\ IF f THEN Fault ELSE NoFault
                   /\ FailTitle(FailKind)
                   /\ txLog' = <<>>
                   /\ UNCHANGED <<ci, totVars, txChapters, uniqueViolated>>
              ELSE IF ~r.ok
              THEN /\ NoFault
                   /\ FailTitle("constraint")
                   /\ txLog' = <<>>
                   /\ uniqueViolated' = TRUE
                   /\ UNCHANGED <<ci, totVars, txChapters>>
              ELSE /\ NoFault
                   /\ store' = r.db
                   /\ txLog' = Append(txLog, <<"pages", chapterPath>>)
                   /\ chapterCount' = chapterCount + 1
                   /\ mangaPageCount' = mangaPageCount + chMeta.pageCount
                   /\ mangaMTime' = IF chMeta.mtime > mangaMTime THEN chMeta.mtime
                                                                 ELSE mangaMTime
                   /\ txChapters' = txChapters \cup {chapterPath}
                   /\ ci' = ci + 1
                   /\ pc' = "chapter"
                   /\ UNCHANGED <<committed, txOpen, result, failedTitle, uniqueViolated>>
    /\ UNCHANGED <<ri, ei, colVars, fsErrs, txBase, began, skipped, collected,
                   flight>>
    /\ ScanFrame

\* finalizeMangaScan: lines 256-259
FinalizeStep ==
    /\ pc = "finalize"
    /\ \E f \in FaultChoices :
          LET r == finalizeMangaScan(store, stableID("manga", mangaPath), chapterCount,
                                     mangaPageCount, mangaMTime, run)
          IN  IF TxCtxDone \/ f \/ ~r.ok
              THEN /\ IF f THEN Fault ELSE NoFault
                   /\ FailTitle(FailKind)
                   /\ txLog' = <<>>
              ELSE /\ NoFault
                   /\ store' = r.db
                   /\ txLog' = Append(txLog, <<"rollup", mangaPath>>)
                   /\ pc' = "commit"
                   /\ UNCHANGED <<committed, txOpen, result, failedTitle>>
    /\ UNCHANGED <<posVars, totVars, colVars, fsErrs, txBase, txChapters, began,
                   uniqueViolated, skipped, collected, flight>>
    /\ ScanFrame

\* tx.Commit(): lines 261-265.  Commit of a transaction whose ctx is done
\* returns an error and leaves the rollback to the transaction's own watcher;
\* a commit that fails commits nothing.
CommitStep ==
    /\ pc = "commit"
    /\ \E f \in FaultChoices :
          IF TxCtxDone
          THEN /\ NoFault
               /\ Return(IF txOpen THEN "ctxwrap" ELSE "txdone")
               /\ failedTitle' = mangaPath
               /\ UNCHANGED <<dbVars, ei, txLog>>
          ELSE IF f
          THEN /\ Fault
               /\ FailTitle(FailKind)
               /\ txLog' = <<>>
               /\ UNCHANGED ei
          ELSE /\ NoFault
               /\ committed' = store
               /\ txOpen' = FALSE
               /\ txLog' = Append(txLog, <<"commit", mangaPath>>)
               /\ ei' = ei + 1
               /\ pc' = "entry"
               /\ UNCHANGED <<store, result, failedTitle>>
    /\ UNCHANGED <<ri, ci, totVars, colVars, fsErrs, txBase, txChapters, began,
                   uniqueViolated, skipped, collected, flight>>
    /\ ScanFrame

\* database/sql rolls a transaction back when the ctx it was begun with is done
AwaitDone ==
    /\ cancelled
    /\ txOpen
    /\ Rollback
    /\ UNCHANGED <<fsVars, scanVars, envVars, readerVars, histVars, auxVars>>

\* a title directory is listed at or after entry e of root r
DirsFrom(r, e) ==
    \E j \in e..Len(RootEntries(Clean(libraryRoots[r]))) :
        RootEntries(Clean(libraryRoots[r]))[j].isDir

\* Scan is past the check of line 190 for the current title
InTitle ==
    pc \in {"begin", "manga", "chapter", "collect", "upchapter", "uppages",
            "finalize", "commit"}

\* Scan is inside a title, or has title directories still to visit
WorkLeft ==
    \/ InTitle
    \/ /\ pc = "entry"
       /\ \/ DirsFrom(ri, ei)
          \/ \E r \in (ri + 1)..Len(libraryRoots) : DirsFrom(r, 1)
    \/ /\ pc = "root"
       /\ \E r \in ri..Len(libraryRoots) : DirsFrom(r, 1)

\* the ctx Scan was called with is cancelled while Scan runs
Cancel ==
    /\ pc \notin {"idle", "done"}
    /\ ~cancelled
    /\ cancelled' = TRUE
    /\ clean' = FALSE
    /\ cancelLeft' = WorkLeft
    /\ startedAtCancel' = began \cup (IF InTitle THEN {mangaPath} ELSE {})
    /\ flight' = IF pc = "collect" THEN "cancelled" ELSE flight
    /\ UNCHANGED <<fsVars, dbVars, scanVars, faults, fsErrs, envWrites, readerVars,
                   txBase, txChapters, txLog, began, failedTitle, runFs, prev, runBase,
                   uniqueViolated, readDirty, skipped, collected,
                   auxVars>>

\* ------------------------------------------------- other users of the store
\* faulty variant of ConnFree: statements run on the connection while the
\* transaction is open on it
ConnAlwaysFree == TRUE

\* db.SetMaxOpenConns(1): a statement outside Scan's transaction gets the
\* connection only while no transaction holds it
ConnFree == ~txOpen

\* a statement outside a transaction commits by itself
AutoCommit(db) ==
    /\ store' = db
    /\ committed' = db
    /\ UNCHANGED txOpen

\* the cover subsystem picks a page as a title's cover and caches its thumbnail
SetCover ==
    /\ envWrites < MaxEnvWrites
    /\ ConnFree
    /\ \E m \in store.manga, p \in store.page :
          /\ \E c \in store.chapter : c.manga_id = m.id /\ p.chapter_id = c.id
          /\ AutoCommit([store EXCEPT
                !.manga = (store.manga \ {m}) \cup {[m EXCEPT !.cover_page_id = p.id]},
                !.thumbs = store.thumbs \cup
                    {[source_type |-> "cover", source_id |-> m.id]}])
    /\ envWrites' = envWrites + 1
    /\ UNCHANGED <<fsVars, scanVars, cancelled, faults, fsErrs, readerVars, histVars,
                   auxVars>>

\* the dimensions and the checksum an enrichment pass finds for a page
PageWidth == 800
PageHeight == 1200
PageChecksum == "sha256"

\* an enrichment pass fills the width, height and checksum columns of a page row
EnrichPage ==
    /\ envWrites < MaxEnvWrites
    /\ ConnFree
    /\ \E p \in store.page :
          AutoCommit([store EXCEPT
                !.page = (store.page \ {p}) \cup
                    {[p EXCEPT !.width = PageWidth, !.height = PageHeight,
                               !.checksum = PageChecksum]}])
    /\ envWrites' = envWrites + 1
    /\ UNCHANGED <<fsVars, scanVars, cancelled, faults, fsErrs, readerVars, histVars,
                   auxVars>>

\* the reader saves the reading position of a title: progress is UNIQUE (manga_id)
SaveProgress ==
    /\ envWrites < MaxEnvWrites
    /\ ConnFree
    /\ \E m \in store.manga, c \in store.chapter :
          /\ c.manga_id = m.id
          /\ AutoCommit([store EXCEPT
                !.progress = { g \in store.progress : g.manga_id # m.id } \cup
                    {[manga_id |-> m.id, chapter_id |-> c.id, page_index |-> 0]}])
    /\ envWrites' = envWrites + 1
    /\ UNCHANGED <<fsVars, scanVars, cancelled, faults, fsErrs, readerVars, histVars,
                   auxVars>>

\* ------------------------------------------------------ the library handler
defaultLibraryPage == 1
defaultLibraryLimit == 60
maxLibraryLimit == 200

\* the page and limit query parameters a request may carry; 0 stands for a
\* parameter that is absent, not a number, or not positive
RawPages == {0, 1, 2}
RawLimits == {0, 1, 300}

parsePositiveInt(raw, fallback) == IF raw <= 0 THEN fallback ELSE raw

\* the manga rows in the order of listQuery: updated_at DESC, title_sort ASC
ListOrder(db) ==
    LET before(a, b) ==
            \/ a.updated_at > b.updated_at
            \/ a.updated_at = b.updated_at /\ StrLess(a.title_sort, b.title_sort)
    IN  SortSlice(db.manga, before)

\* listQuery: LIMIT limit OFFSET offset of the ordered rows
listQuery(db, limit, offset) ==
    LET all == ListOrder(db)
        last == IF offset + limit < Len(all) THEN offset + limit ELSE Len(all)
    IN  [i \in 1..(IF last > offset THEN last - offset ELSE 0) |->
            [id |-> all[offset + i].id, title |-> all[offset + i].title,
             chapter_count |-> all[offset + i].chapter_count,
             updated_at |-> all[offset + i].updated_at]]

\* a request arrives: page and limit are parsed, limit is capped (lines 150-155)
ReaderStart ==
    /\ rpc = "idle"
    /\ reads < MaxReads
    /\ \E rawPage \in RawPages, rawLimit \in RawLimits :
          LET limit == parsePositiveInt(rawLimit, defaultLibraryLimit)
          IN  rreq' = [page |-> parsePositiveInt(rawPage, defaultLibraryPage),
                       limit |-> IF limit > maxLibraryLimit THEN maxLibraryLimit ELSE limit]
    /\ rpc' = "count"
    /\ reads' = reads + 1
    /\ UNCHANGED <<fsVars, dbVars, scanVars, envVars, total, items, rwait, histVars,
                   auxVars>>

\* countQuery (lines 157-162); the query waits while the connection is held
ReaderCount ==
    /\ rpc = "count"
    /\ IF ConnFree
       THEN /\ total' = Cardinality(store.manga)
            /\ readDirty' = (readDirty \/ store # committed)
            /\ rpc' = "list"
            /\ rwait' = FALSE
       ELSE /\ rwait' = TRUE
            /\ UNCHANGED <<total, readDirty, rpc>>
    /\ UNCHANGED <<fsVars, dbVars, scanVars, envVars, rreq, items, reads, txBase,
                   txChapters, txLog, began, failedTitle, clean, runFs, prev, runBase,
                   cancelLeft, uniqueViolated, skipVars, auxVars>>

\* listQuery and the response (lines 164-199)
ReaderList ==
    /\ rpc = "list"
    /\ IF ConnFree
       THEN /\ items' = listQuery(store, rreq.limit, (rreq.page - 1) * rreq.limit)
            /\ readDirty' = (readDirty \/ store # committed)
            /\ rpc' = "idle"
            /\ rwait' = FALSE
       ELSE /\ rwait' = TRUE
            /\ UNCHANGED <<items, readDirty, rpc>>
    /\ UNCHANGED <<fsVars, dbVars, scanVars, envVars, rreq, total, reads, txBase,
                   txChapters, txLog, began, failedTitle, clean, runFs, prev, runBase,
                   cancelLeft, uniqueViolated, skipVars, auxVars>>

\* ------------------------------------------- a second invocation of Scan
\* the title directories in the order Scan visits them: root by root, the
\* directory entries of each root in listing order (lines 174-194)
RootTitles(r) ==
    LET root == Clean(libraryRoots[r])
        dirs == SelectSeq(RootEntries(root), LAMBDA e : e.isDir)
    IN  [i \in 1..Len(dirs) |-> Join(root, dirs[i].name)]

RECURSIVE TitlesFrom(_)
TitlesFrom(r) ==
    IF r > Len(libraryRoots) THEN <<>>
    ELSE RootTitles(r) \o TitlesFrom(r + 1)

TitleSeq == TitlesFrom(1)

\* the one member of a set of one value
Only(S) == CHOOSE x \in S : TRUE

\* one pass of the loop over a title's chapters (lines 222-248): acc carries
\* the store of the transaction and the title's totals
ScanChapter(acc, title, c, listing, now) ==
    LET pgs == CollectPages(c, listing[c].files)
        meta == ChapterMetaOf(c, pgs, listing[c].mtime)
        r1 == upsertChapter(acc.db, stableID("chapter", c),
                            stableID("manga", title), meta, now)
        r2 == upsertPages(r1.db, stableID("chapter", c), pgs)
    IN  IF Len(pgs) = 0 THEN acc
        ELSE IF ~r1.ok \/ ~r2.ok THEN [acc EXCEPT !.ok = FALSE]
        ELSE [ok |-> TRUE, db |-> r2.db,
              chapterCount |-> acc.chapterCount + 1,
              mangaPageCount |-> acc.mangaPageCount + Len(pgs),
              mangaMTime |-> IF meta.mtime > acc.mangaMTime THEN meta.mtime
                                                            ELSE acc.mangaMTime]

\* the loop over a title's chapters (lines 221-249) as one function of the
\* store of the transaction; it ends at the first statement that fails
RECURSIVE ScanChapters(_, _, _, _, _)
ScanChapters(acc, title, dirs, listing, now) ==
    IF dirs = <<>> THEN acc
    ELSE Only({ IF ~a.ok THEN a
                ELSE ScanChapters(ScanChapter(a, title, Join(title, Head(dirs)),
                                              listing, now),
                                  title, Tail(dirs), listing, now) : a \in {acc} })

\* faulty variant of ScanTitle: the title is committed without its chapters
ScanTitleBare(db, title, listing, now) ==
    LET r0 == upsertManga(db, stableID("manga", title), Base(title), title, now)
    IN  [ok |-> r0.ok, commit |-> r0.ok, db |-> r0.db]

\* the body of a title's transaction (lines 212-259) as one function of the
\* store it begins on: whether it fails, whether it is committed, and the
\* store it commits
ScanTitle(db, title, listing, now) ==
    LET r0 == upsertManga(db, stableID("manga", title), Base(title), title, now)
        done == ScanChapters([ok |-> r0.ok, db |-> r0.db, chapterCount |-> 0,
                              mangaPageCount |-> 0, mangaMTime |-> NullTime],
                             title, readChapterDirs(title), listing, now)
    IN  Only({ IF ~acc.ok THEN [ok |-> FALSE, commit |-> FALSE, db |-> db]
               ELSE IF ~TitleQualifies(acc.chapterCount)
               THEN [ok |-> TRUE, commit |-> FALSE, db |-> db]
               ELSE [ok |-> TRUE, commit |-> TRUE,
                     db |-> finalizeMangaScan(acc.db, stableID("manga", title),
                                              acc.chapterCount, acc.mangaPageCount,
                                              acc.mangaMTime, now).db] : acc \in {done} })

\* what no step of the second invocation changes
OtherFrame == UNCHANGED <<fsVars, scanVars, envVars, readerVars, histVars, call, mig>>

\* Scan is called a second time, by another goroutine
OtherStart ==
    /\ opc \in {"idle", "done"}
    /\ oruns < MaxScans
    /\ run > 0
    /\ oruns' = oruns + 1
    /\ opc' = "scan"
    /\ oti' = 1
    /\ ores' = "none"
    /\ ocommits' = {}
    /\ overlap' = (pc \notin {"idle", "done"})
    /\ UNCHANGED dbVars
    /\ OtherFrame

\* lines 174-210 of the second invocation: the next title directory; one
\* without chapter directory is passed over; BeginTx waits for the connection
OtherBegin ==
    /\ opc = "scan"
    /\ IF oti > Len(TitleSeq)
       THEN /\ opc' = "done"
            /\ ores' = "ok"
            /\ UNCHANGED <<oti, dbVars>>
       ELSE IF Len(readChapterDirs(TitleSeq[oti])) = 0
       THEN /\ oti' = oti + 1
            /\ UNCHANGED <<opc, ores, dbVars>>
       ELSE /\ ConnFree
            /\ txOpen' = TRUE
            /\ opc' = "tx"
            /\ UNCHANGED <<oti, ores, committed, store>>
    /\ UNCHANGED <<oruns, ocommits, overlap>>
    /\ OtherFrame

\* lines 212-259 of the second invocation: the title's transaction
OtherTitle ==
    /\ opc = "tx"
    /\ LET r == ScanTitle(store, TitleSeq[oti], fs, run)
       IN  IF ~r.ok
           THEN /\ Rollback
                /\ opc' = "done"
                /\ ores' = "constraint"
                /\ UNCHANGED oti
           ELSE IF ~r.commit
           THEN /\ Rollback
                /\ oti' = oti + 1
                /\ opc' = "scan"
                /\ UNCHANGED ores
           ELSE /\ store' = r.db
                /\ opc' = "commit"
                /\ UNCHANGED <<committed, txOpen, oti, ores>>
    /\ UNCHANGED <<oruns, ocommits, overlap>>
    /\ OtherFrame

\* lines 261-265 of the second invocation: tx.Commit()
OtherCommit ==
    /\ opc = "commit"
    /\ committed' = store
    /\ txOpen' = FALSE
    /\ ocommits' = ocommits \cup {TitleSeq[oti]}
    /\ oti' = oti + 1
    /\ opc' = "scan"
    /\ UNCHANGED <<store, ores, oruns, overlap>>
    /\ OtherFrame

\* ------------------------------------------------- calls of pure functions
\* what a call of a pure function leaves alone
PureFrame == UNCHANGED <<fsVars, dbVars, scanVars, envVars, readerVars, histVars,
                         otherVars, mig>>

\* file names that differ in one embedded digit run and in case: the text
\* before the run, the values of the run, the text after it
NamePrefixes == { <<112, 97, 103, 101>>, <<80, 97, 103, 101>> }
RunValues == {2, 9, 10, 100, 99999999, 100000000}
DigitRuns == { Digits(n) : n \in RunValues } \cup { <<48, 50>> }
NameSuffix == <<46, 106, 112, 103>>

\* naturalLess(a, b) is called on two such names
CallNaturalLess ==
    /\ \E pa \in NamePrefixes, pb \in NamePrefixes, ra \in DigitRuns, rb \in DigitRuns :
          call' = [fn |-> "naturalLess",
                   a |-> pa \o ra \o NameSuffix, b |-> pb \o rb \o NameSuffix,
                   ra |-> ra, rb |-> rb,
                   out |-> naturalLess(pa \o ra \o NameSuffix, pb \o rb \o NameSuffix)]
    /\ PureFrame

\* the entity prefixes Scan passes to stableID (lines 204, 232, 317), and paths
\* as they are passed, with and without "." segments
IdPrefixes == {"manga", "chapter", "page"}
RawPaths ==
    { <<"lib", "A">>, <<"lib", ".", "A">>, <<".", "lib", "A", ".">>, <<"lib", "B">>,
      <<"lib2", "B">>, <<"lib", "A", "c1">>, <<"lib", "A", ".", "c1">>, <<"lib">> }

\* stableID is called twice
CallStableID ==
    /\ \E p1 \in IdPrefixes, p2 \in IdPrefixes, x1 \in RawPaths, x2 \in RawPaths :
          call' = [fn |-> "stableID", p1 |-> p1, x1 |-> x1, p2 |-> p2, x2 |-> x2,
                   id1 |-> stableID(p1, x1), id2 |-> stableID(p2, x2),
                   again |-> stableID(p1, x1)]
    /\ PureFrame

\* the chapter directory names parseChapterNumber is called on
ChapterNames ==
    {"Chapter 12", "Ch. 4.5", "Oneshot", "ch10.5", "v2 ch3", "CH  07", "1.5.3",
     "10.", "chapter", "Extra.50", "c1", "c2"}

\* parseChapterNumber is called by collectChapter on the name of a chapter
\* directory that holds a page (line 346), and the chapter is upserted into a
\* store that has its title (lines 232-233)
CallParseChapterNumber ==
    /\ \E name \in ChapterNames :
          LET path == <<"lib", "A", name>>
              meta == ChapterMetaOf(path, <<[id |-> stableID("page", Join(path, "2.jpg")),
                                            path |-> Join(path, "2.jpg"),
                                            index |-> PageIndexOf(1),
                                            width |-> NoDimension,
                                            height |-> NoDimension]>>, 1)
              titled == upsertManga(EmptyDb, stableID("manga", <<"lib", "A">>), "A",
                                    <<"lib", "A">>, 1).db
              r == upsertChapter(titled, stableID("chapter", path),
                                 stableID("manga", <<"lib", "A">>), meta, 1)
          IN  call' = [fn |-> "parseChapterNumber", name |-> Bytes[name],
                       out |-> parseChapterNumber(Bytes[name]),
                       rows |-> IF r.ok THEN { c \in r.db.chapter : c.path = path }
                                        ELSE {}]
    /\ PureFrame

\* the base names of page files a chapter directory may hold: "1.jpg",
\* "01.jpg" and "2.jpg"
PageFileNames ==
    { <<49, 46, 106, 112, 103>>, <<48, 49, 46, 106, 112, 103>>, <<50, 46, 106, 112, 103>> }

\* sort.Slice(pages, naturalLess on the base names), lines 329-331, on the
\* pages in the order the walk appended them: the sort is not stable, so the
\* result is any ordering of them in which no page is less than one before it
SortedPages(walk) ==
    { s \in Perms({ walk[i] : i \in 1..Len(walk) }) :
        \A i, j \in 1..Len(s) : i < j => ~naturalLess(s[j], s[i]) }

\* collectChapter sorts the pages the walk found and indexes them: lines 329-335
CallSortPages ==
    /\ \E files \in (SUBSET PageFileNames) \ {{}} :
          \E walk \in Perms(files) :
              \E sorted \in SortedPages(walk) :
                  call' = [fn |-> "sortPages", files |-> files, walk |-> walk,
                           out |-> sorted,
                           index |-> [i \in 1..Len(sorted) |-> PageIndexOf(i)]]
    /\ PureFrame

\* ------------------------------------------------------------ specification
FsNext == \E c \in ChapterPaths, f \in ImageNames : FsChange(c, f)

ScanNext ==
    \/ StartScan
    \/ RootStep
    \/ EntryStep
    \/ BeginTx
    \/ UpsertMangaStep
    \/ ChapterStep
    \/ CollectStep
    \/ UpsertChapterStep
    \/ UpsertPagesStep
    \/ FinalizeStep
    \/ CommitStep

\* repeated scans of a library whose files change between the scans, with
\* storage faults
Next == FsNext \/ ScanNext

Spec == Init /\ [][Next]_vars

\* repeated scans while other subsystems write their columns and tables
NextEnv == ScanNext \/ SetCover \/ SaveProgress \/ EnrichPage

SpecEnv == Init /\ [][NextEnv]_vars

\* the state after construction, over any of the listings, in a run in which
\* no storage fault and no filesystem error occurs
InitListed ==
    /\ \E listing \in Listings : InitWith(listing)
    /\ faults = MaxFaults
    /\ fsErrs = MaxFsErrs

\* scans whose ctx may be cancelled at any moment
NextCancel == ScanNext \/ Cancel \/ AwaitDone

SpecCancel == InitQuiet /\ [][NextCancel]_vars

\* the same, over any of the listings
SpecCancelListed == InitListed /\ [][NextCancel]_vars

\* scans, cancelled or not, while the library handler serves requests
NextReader == ScanNext \/ Cancel \/ AwaitDone \/ ReaderStart \/ ReaderCount \/ ReaderList

SpecReader == InitQuiet /\ [][NextReader]_vars

\* repeated scans of a library with directory reads and walks that fail
SpecFsErr == InitFsErr /\ [][ScanNext]_vars

\* an image file vanishes from a chapter directory between two scans
FsVanish == \E c \in ChapterPaths : \E f \in ImagesOf(fs, c) : FsChange(c, f)

\* the state after construction, over any of the listings in which chapter c2
\* is empty, in a run in which no storage fault and no filesystem error occurs
InitVanish ==
    /\ \E listing \in Listings :
          /\ listing[<<"lib", "A", "c2">>].files = {}
          /\ InitWith(listing)
    /\ faults = MaxFaults
    /\ fsErrs = MaxFsErrs

\* scans, cancelled or not, of a library whose files vanish between the scans
NextVanish == FsVanish \/ ScanNext \/ Cancel \/ AwaitDone

SpecVanish == InitVanish /\ [][NextVanish]_vars

\* two invocations of Scan over the same roots that may overlap
NextOverlap == ScanNext \/ OtherStart \/ OtherBegin \/ OtherTitle \/ OtherCommit

SpecOverlap == InitListed /\ [][NextOverlap]_vars

\* calls of the pure functions of the scanner
NextPure == CallNaturalLess \/ CallStableID \/ CallParseChapterNumber \/ CallSortPages

SpecPure == InitQuiet /\ [][NextPure]_vars

\* ------------------------------------------------- the migration bootstrap
\* the embedded files whose name ends in ".sql", as sort.Strings orders them
\* (lines 75-87): the names start with a zero-padded number, a file is
\* written here as that number
versions == [i \in 1..MaxMigrations |-> i]

\* faulty variant of isApplied: no version is found in the ledger
isAppliedNever(db, version) == FALSE

\* isApplied (lines 127-137): the version has a row in schema_migrations
isApplied(db, version) == version \in db.ledger

\* OpenAndMigrate returns: err is "" for nil; on an error it closes the
\* database (lines 31-44), which ends a transaction that is still open
MigReturn(m, err) ==
    [m EXCEPT !.pc = "closed", !.errs = Append(@, err), !.txOpen = FALSE, !.tx = m.db]

\* the end of one pass of the loop over versions (lines 89, 124)
MigAdvance(m) ==
    IF m.vi = Len(versions) THEN MigReturn(m, "")
    ELSE [m EXCEPT !.vi = @ + 1, !.pc = "check"]

\* a statement of OpenAndMigrate fails: its ctx is done, or f, a storage fault
MigFails(f) == mig.cancelled \/ f

MigFault(f) == IF f THEN [mig EXCEPT !.faults = @ + 1] ELSE mig

MigFrame ==
    UNCHANGED <<fsVars, dbVars, scanVars, envVars, readerVars, histVars, otherVars, call>>

\* OpenAndMigrate up to runMigrations (lines 19-39): open, pragmas, ping
OpenStart ==
    /\ mig.pc = "closed"
    /\ mig.opens < MaxOpens
    /\ \E f \in BOOLEAN :
          /\ f => mig.faults < MaxFaults
          /\ LET m == [MigFault(f) EXCEPT !.opens = @ + 1, !.vi = 1, !.cancelled = FALSE,
                                           !.base = mig.db.ledger]
             IN  mig' = IF f THEN MigReturn(m, "ping sqlite")
                         ELSE [m EXCEPT !.pc = "ledger"]
    /\ MigFrame

\* CREATE TABLE IF NOT EXISTS schema_migrations (lines 66-73)
CreateLedger ==
    /\ mig.pc = "ledger"
    /\ \E f \in BOOLEAN :
          /\ f => mig.faults < MaxFaults
          /\ mig' = IF MigFails(f)
                    THEN MigReturn(MigFault(f), "create schema_migrations")
                    ELSE [mig EXCEPT !.db.table = TRUE, !.tx.table = TRUE, !.pc = "check"]
    /\ MigFrame

\* the check of one version (lines 90-96)
CheckVersion ==
    /\ mig.pc = "check"
    /\ \E f \in BOOLEAN :
          /\ f => mig.faults < MaxFaults
          /\ mig' = IF MigFails(f)
                    THEN MigReturn(MigFault(f), "check migration")
                    ELSE IF isApplied(mig.db, versions[mig.vi])
                         THEN MigAdvance(mig)
                         ELSE [mig EXCEPT !.pc = "begin"]
    /\ MigFrame

\* db.BeginTx (lines 103-106); the embedded file is always read (lines 98-101)
MigBegin ==
    /\ mig.pc = "begin"
    /\ \E f \in BOOLEAN :
          /\ f => mig.faults < MaxFaults
          /\ mig' = IF MigFails(f)
                    THEN MigReturn(MigFault(f), "begin migration tx")
                    ELSE [mig EXCEPT !.txOpen = TRUE, !.tx = mig.db, !.pc = "body"]
    /\ MigFrame

\* the body of the migration, in the transaction (lines 108-111)
ApplyBody ==
    /\ mig.pc = "body"
    /\ \E f \in BOOLEAN :
          /\ f => mig.faults < MaxFaults
          /\ mig' = IF MigFails(f)
                    THEN MigReturn(MigFault(f), "apply migration")
                    ELSE [mig EXCEPT !.tx.applied = @ \cup { <<versions[mig.vi], mig.opens>> },
                                     !.reapplied = @ \/ versions[mig.vi] \in mig.db.ledger,
                                     !.pc = "record"]
    /\ MigFrame

\* INSERT INTO schema_migrations, in the transaction (lines 113-116); version
\* is the primary key of the table
RecordVersion ==
    /\ mig.pc = "record"
    /\ \E f \in BOOLEAN :
          /\ f => mig.faults < MaxFaults
          /\ mig' = IF MigFails(f) \/ versions[mig.vi] \in mig.tx.ledger
                    THEN MigReturn(MigFault(f), "record migration")
                    ELSE [mig EXCEPT !.tx.ledger = @ \cup { versions[mig.vi] },
                                     !.pc = "commit"]
    /\ MigFrame

\* tx.Commit (lines 118-121)
MigCommit ==
    /\ mig.pc = "commit"
    /\ \E f \in BOOLEAN :
          /\ f => mig.faults < MaxFaults
          /\ mig' = IF MigFails(f)
                    THEN MigReturn(MigFault(f), "commit migration")
                    ELSE MigAdvance([mig EXCEPT !.db = mig.tx, !.txOpen = FALSE])
    /\ MigFrame

\* the ctx of OpenAndMigrate is cancelled while it runs
MigCancel ==
    /\ mig.pc # "closed"
    /\ ~mig.cancelled
    /\ mig' = [mig EXCEPT !.cancelled = TRUE]
    /\ MigFrame

NextMigrate ==
    \/ OpenStart \/ CreateLedger \/ CheckVersion \/ MigBegin \/ ApplyBody
    \/ RecordVersion \/ MigCommit \/ MigCancel

\* OpenAndMigrate, called again after it has returned, with storage faults and
\* a ctx that may be cancelled
SpecMigrate == InitQuiet /\ [][NextMigrate]_vars

TypeOK ==
    /\ pc \in {"idle", "root", "entry", "begin", "manga", "chapter", "collect",
               "upchapter", "uppages", "finalize", "commit", "done"}
    /\ result \in {"none", "ok", "ctx", "ctxwrap", "txdone", "storage", "constraint"}
    /\ ~txOpen => store = committed

\* ------------------------------------------------------------------ claims
\* the chapter directories of a title
ChaptersOf(title) == { c \in ChapterPaths : SubSeq(c, 1, Len(c) - 1) = title }

\* the rows of a store that belong to a title: its manga row, the chapter rows
\* under it and their page rows
TitleRows(db, title) ==
    LET ms == { m \in db.manga : m.path = title }
        cs == { c \in db.chapter : \E m \in ms : c.manga_id = m.id }
        ps == { p \in db.page : \E c \in cs : p.chapter_id = c.id }
    IN  [manga |-> ms, chapter |-> cs, page |-> ps]

NoRows == [manga |-> {}, chapter |-> {}, page |-> {}]

\* the page rows of a chapter, and those among them whose file is on disk
PageRows(db, c) == { p \in db.page : p.chapter_id = stableID("chapter", c) }
LivePageRows(db, listing, c) ==
    { p \in PageRows(db, c) : \E f \in ImagesOf(listing, c) : p.path = Join(c, f) }

\* title t comes before title u in the order Scan visits the root entries
Before(t, u) ==
    \E r1, r2 \in 1..Len(libraryRoots) :
        LET e1 == RootEntries(Clean(libraryRoots[r1]))
            e2 == RootEntries(Clean(libraryRoots[r2]))
        IN  \E i \in 1..Len(e1), j \in 1..Len(e2) :
                /\ Join(Clean(libraryRoots[r1]), e1[i].name) = t
                /\ Join(Clean(libraryRoots[r2]), e2[j].name) = u
                /\ (r1 < r2 \/ (r1 = r2 /\ i < j))

\* C1: re-scan stability.  When a scan without fault follows a successful scan
\* of the same, unchanged directory listings, it succeeds and the committed
\* title, chapter and page rows (IDs, paths, parents, page indices) are the
\* same as after the first.
C1_RescanStable ==
    (pc = "done" /\ clean /\ prev.ok /\ prev.fs = runFs) =>
        /\ result = "ok"
        /\ ScanRows(committed) = prev.rows

\* a second scan of an unchanged library has finished, with pages stored
C1_Witness ==
    /\ pc = "done" /\ clean /\ prev.ok /\ prev.fs = runFs
    /\ result = "ok"
    /\ committed.page # {}

\* the transaction at the commit of a title holds the title's row with its
\* rollup, and the chapter row and every page row of each qualifying chapter
TitleWritten(db) ==
    /\ txChapters = { c \in ChaptersOf(mangaPath) : ImagesOf(fs, c) # {} }
    /\ \E m \in db.manga :
          /\ m.id = stableID("manga", mangaPath)
          /\ m.chapter_count = Cardinality(txChapters)
          /\ m.page_count = Cardinality(UNION { ImagesOf(fs, c) \X {c} : c \in txChapters })
    /\ \A c \in txChapters :
          /\ \E row \in db.chapter :
                row.path = c /\ row.manga_id = stableID("manga", mangaPath)
          /\ Cardinality(LivePageRows(db, fs, c)) = Cardinality(ImagesOf(fs, c))

\* C2: partial-title atomicity.  The committed store changes only by the
\* commit of a whole title transaction (title row, every qualifying chapter,
\* every page, rollup); a step that fails inside a title changes nothing
\* that is committed.
C2_TitleAtomic ==
    [][committed' # committed =>
          /\ pc = "commit"
          /\ committed' = store
          /\ TitleWritten(store)]_vars

\* a title's transaction failed after a chapter and its pages were upserted,
\* and the committed store is as it was when the transaction began
C2_Witness ==
    /\ pc = "done" /\ result = "storage"
    /\ txChapters # {}
    /\ committed = txBase

\* C3: the page upserts of a re-scan that reassigns page indices never break
\* the (chapter_id, page_index) uniqueness constraint.
C3_NoUniqueViolation == ~uniqueViolated

\* C4 as stated: after a successful scan, the committed page rows of a
\* chapter with N image files on disk are exactly N rows indexed 0..N-1.
C4_DenseExactly ==
    (pc = "done" /\ clean /\ result = "ok") =>
        \A c \in ChapterPaths :
            LET n == Cardinality(ImagesOf(runFs, c))
            IN  n > 0 =>
                  /\ Cardinality(PageRows(committed, c)) = n
                  /\ { p.page_index : p \in PageRows(committed, c) } = 0..(n - 1)

\* C4 as amended: after a successful scan, the committed page rows of a
\* chapter whose files are on disk are exactly N rows, one per image file,
\* indexed 0..N-1; rows of files no longer on disk are left in place.
C4_DenseLive ==
    (pc = "done" /\ clean /\ result = "ok") =>
        \A c \in ChapterPaths :
            LET n == Cardinality(ImagesOf(runFs, c))
                live == LivePageRows(committed, runFs, c)
            IN  n > 0 =>
                  /\ Cardinality(live) = n
                  /\ { p.page_index : p \in live } = 0..(n - 1)
                  /\ \A p \in PageRows(committed, c) \ live : p.page_index >= n

\* a re-scan succeeded on a chapter that has a page row of a vanished file
C4_Witness ==
    /\ pc = "done" /\ clean /\ result = "ok" /\ run = 2
    /\ \E c \in ChapterPaths :
          /\ ImagesOf(runFs, c) # {}
          /\ PageRows(committed, c) # LivePageRows(committed, runFs, c)

\* C5: once a storage operation has failed inside a title, Scan has returned
\* an error, and no title after the failing one had a transaction begun or a
\* row written in this run.
C5_AbortOnFailure ==
    failedTitle # NullId =>
        /\ pc = "done"
        /\ result \in {"storage", "constraint", "ctxwrap", "txdone"}
        /\ \A t \in TitlePaths :
              Before(failedTitle, t) =>
                  /\ t \notin began
                  /\ TitleRows(committed, t) = TitleRows(runBase, t)

\* a storage fault failed the first title while a later title qualifies
C5_Witness ==
    /\ failedTitle = <<"lib", "A">>
    /\ result = "storage"
    /\ ImagesOf(runFs, <<"lib2", "B", "c1">>) # {}

\* a title qualifies on disk when a chapter directory of it holds an image
QualifiesOnDisk(listing, title) ==
    \E c \in ChaptersOf(title) : ImagesOf(listing, c) # {}

\* C6 as stated: after a successful scan, a title without chapter directory,
\* or whose chapter directories hold no image, has no title, chapter or page
\* row.
C6_NoRowsAtAll ==
    (pc = "done" /\ clean /\ result = "ok") =>
        \A t \in TitlePaths :
            ~QualifiesOnDisk(runFs, t) => TitleRows(committed, t) = NoRows

\* C6 as amended: a scan writes nothing for such a title: at every moment of
\* the run the title's committed rows are those it had when the run started
\* (none if it was never indexed), and the title fails no scan that meets no
\* storage fault.
C6_SkipWritesNothing ==
    \A t \in TitlePaths :
        ~QualifiesOnDisk(runFs, t) =>
            /\ TitleRows(committed, t) = TitleRows(runBase, t)
            /\ (clean => failedTitle # t)

\* a scan skipped title A, whose chapter directories hold no image, and went
\* on to commit title B
C6_Witness ==
    /\ pc = "done" /\ clean /\ result = "ok"
    /\ ~QualifiesOnDisk(runFs, <<"lib", "A">>)
    /\ \E m \in committed.manga : m.path = <<"lib2", "B">> /\ m.updated_at = run

\* C7: a query of the library handler never sees a half-written title: it
\* never runs on the connection while a transaction's uncommitted writes are
\* on it, and no listed title is without its rollup.
C7_NoHalfWrittenRead ==
    /\ ~readDirty
    /\ \A i \in 1..Len(items) : items[i].chapter_count > 0

\* a request was answered with titles while Scan was inside a title's
\* transaction
C7_Witness ==
    /\ txOpen
    /\ rpc = "idle" /\ reads > 0
    /\ Len(items) > 0

\* C8: a query of the library handler never waits for Scan's transaction.
C8_ReadersNeverWait == ~rwait

\* every committed manga row keeps its id, path, cover_page_id and created_at,
\* and the progress and thumbnail_cache tables keep their rows
FrameKept(old, new) ==
    /\ new.progress = old.progress
    /\ new.thumbs = old.thumbs
    /\ \A m \in old.manga :
          \E n \in new.manga :
              /\ n.id = m.id /\ n.path = m.path
              /\ n.cover_page_id = m.cover_page_id
              /\ n.created_at = m.created_at

\* C9: no step of Scan changes a committed title row's id, path,
\* cover_page_id or created_at, or any progress or thumbnail_cache row.
C9_ScanKeepsForeignData ==
    [][envWrites' = envWrites => FrameKept(committed, committed')]_vars

\* a re-scan committed a title whose cover page another subsystem had set
C9_Witness ==
    \E m \in committed.manga :
        /\ m.cover_page_id # NullId
        /\ m.created_at < m.updated_at
        /\ m.updated_at = run
        /\ committed.thumbs # {}

\* C10: a Scan whose ctx is cancelled before it has finished its roots and
\* titles returns a cancellation error, never success.
C10_CancelReturnsError ==
    (pc = "done" /\ cancelLeft) => result \in {"ctx", "ctxwrap", "txdone"}

\* the root and the title of a chapter directory
RootOf(c) == SubSeq(c, 1, 1)
TitleOf(c) == SubSeq(c, 1, 2)

\* no read on the way to chapter directory c failed in this run
Readable(c) == skipped \cap {RootOf(c), TitleOf(c), c} = {}

\* the chapter row and the page rows of a chapter directory
ChapterRowsOf(db, c) ==
    [chapter |-> { r \in db.chapter : r.path = c }, page |-> PageRows(db, c)]

\* this run wrote the chapter row of directory c and a page row for each of
\* its image files
ChapterWritten(db, c) ==
    /\ \E r \in db.chapter : r.path = c /\ r.updated_at = run
    /\ Cardinality(LivePageRows(db, runFs, c)) = Cardinality(ImagesOf(runFs, c))

\* a chapter directory that Scan skips: its collection failed, or it holds no image
SkippedChapter(c) == c \in skipped \/ ImagesOf(runFs, c) = {}

\* C11: a chapter whose collection fails with a filesystem error, or that has
\* no page, is not upserted; Scan goes on with the title's next chapter, the
\* title's other qualifying chapters are committed, and Scan returns no error.
C11_ChapterSkipContinues ==
    \A c \in ChapterPaths :
        SkippedChapter(c) =>
            /\ ChapterRowsOf(store, c) = ChapterRowsOf(runBase, c)
            /\ failedTitle = NullId
            /\ pc = "done" =>
                  /\ result = "ok"
                  /\ \A d \in ChaptersOf(TitleOf(c)) :
                        (Readable(d) /\ ~SkippedChapter(d)) => ChapterWritten(committed, d)

\* the walk of chapter c1 of title A failed, the directory holds an image, and
\* the scan committed chapter c2 of the title
C11_Witness ==
    /\ pc = "done" /\ result = "ok"
    /\ <<"lib", "A", "c1">> \in skipped
    /\ ImagesOf(runFs, <<"lib", "A", "c1">>) # {}
    /\ ChapterWritten(committed, <<"lib", "A", "c2">>)
    /\ \E m \in committed.manga : m.path = <<"lib", "A">> /\ m.chapter_count = 1

\* C12: a root that cannot be listed is skipped: Scan begins no title of it
\* and writes no row of it, goes on with the next root, and returns no error.
C12_RootSkipContinues ==
    \A r \in 1..Len(libraryRoots) :
        Clean(libraryRoots[r]) \in skipped =>
            /\ \A t \in TitlePaths :
                  SubSeq(t, 1, 1) = Clean(libraryRoots[r]) =>
                      /\ t \notin began
                      /\ TitleRows(store, t) = TitleRows(runBase, t)
            /\ pc \in {"root", "entry"} => ri > r
            /\ pc = "done" =>
                  /\ result = "ok"
                  /\ \A c \in ChapterPaths :
                        (Readable(c) /\ ~SkippedChapter(c)) => ChapterWritten(committed, c)

\* the first root could not be listed in a re-scan: its title keeps the rows
\* of the first scan, and the title of the second root was committed again
C12_Witness ==
    /\ pc = "done" /\ result = "ok" /\ run = 2
    /\ <<"lib">> \in skipped
    /\ \E m \in committed.manga : m.path = <<"lib", "A">> /\ m.updated_at = 1
    /\ \E m \in committed.manga : m.path = <<"lib2", "B">> /\ m.updated_at = 2

\* the sum of the page counts and the latest modification time of a set of
\* collected chapters
RECURSIVE SumPageCounts(_)
SumPageCounts(S) ==
    IF S = {} THEN 0
    ELSE LET x == CHOOSE x \in S : TRUE
         IN  x.pageCount + SumPageCounts(S \ {x})

LatestMTime(S) ==
    IF S = {} THEN NullTime
    ELSE CHOOSE t \in { x.mtime : x \in S } : \A x \in S : x.mtime <= t

\* C13: title rollup.  The row of a title that a scan commits carries the
\* number of the title's chapters collected with a page in that scan, the sum
\* of their page counts, and the latest of their directory modification times.
C13_TitleRollup ==
    [][committed' # committed =>
          \E m \in committed'.manga :
              /\ m.path = mangaPath
              /\ m.chapter_count = Cardinality(collected)
              /\ m.page_count = SumPageCounts(collected)
              /\ m.last_scan_at = LatestMTime(collected)]_vars

\* title A was committed with two chapters of two pages and one page, the
\* first of them modified last
C13_Witness ==
    /\ pc = "done" /\ result = "ok"
    /\ \E m \in committed.manga :
          /\ m.path = <<"lib", "A">>
          /\ m.chapter_count = 2 /\ m.page_count = 3 /\ m.last_scan_at = 3

\* every title, chapter and page row of the old store is in the new one, with
\* the same id and path
RowsKept(old, new) ==
    /\ \A r \in old.manga : \E n \in new.manga : n.id = r.id /\ n.path = r.path
    /\ \A r \in old.chapter : \E n \in new.chapter : n.id = r.id /\ n.path = r.path
    /\ \A r \in old.page : \E n \in new.page : n.id = r.id /\ n.path = r.path

\* C14: the scanner never deletes.  Every title, chapter and page row that
\* was committed when a Scan started is committed, with the same id and path,
\* at every moment of the Scan and after it, however the Scan ends and
\* whatever has vanished from disk; the open transaction drops none either.
C14_NeverDeletes ==
    /\ RowsKept(runBase, committed)
    /\ RowsKept(committed, store)

\* a re-scan has ended with an error while the store holds the page row of a
\* file that is no longer on disk
C14_Witness ==
    /\ pc = "done" /\ run = 2 /\ result \notin {"none", "ok"}
    /\ \E c \in ChapterPaths :
          PageRows(committed, c) # LivePageRows(committed, fs, c)

\* what a sequence of title transactions, one after the other, makes of a store
RECURSIVE ScanTitles(_, _, _, _)
ScanTitles(db, titles, listing, now) ==
    IF titles = <<>> THEN db
    ELSE LET r == ScanTitle(db, Head(titles), listing, now)
         IN  IF ~r.ok THEN db
             ELSE ScanTitles(IF r.commit THEN r.db ELSE db, Tail(titles), listing, now)

\* the rows of a store without the timestamps of the statements
Content(db) ==
    [manga   |-> { [id |-> m.id, path |-> m.path, title |-> m.title,
                    chapter_count |-> m.chapter_count, page_count |-> m.page_count,
                    last_scan_at |-> m.last_scan_at] : m \in db.manga },
     chapter |-> { [id |-> c.id, path |-> c.path, manga_id |-> c.manga_id,
                    page_count |-> c.page_count, file_mtime |-> c.file_mtime] :
                        c \in db.chapter },
     page    |-> { [id |-> p.id, path |-> p.path, chapter_id |-> p.chapter_id,
                    page_index |-> p.page_index] : p \in db.page }]

\* a step that changes the committed store applies one whole title
\* transaction (title row, chapters, pages and rollup) to it
WholeTransaction ==
    committed' # committed =>
        \E t \in TitlePaths :
            /\ ScanTitle(committed, t, fs, run).commit
            /\ committed' = ScanTitle(committed, t, fs, run).db

\* the invocations of Scan that were started have all returned success, and
\* the committed rows are those a single scan of the library produces
AsSingleScan ==
    (pc = "done" /\ opc \in {"idle", "done"}) =>
        /\ result = "ok"
        /\ opc = "done" => ores = "ok"
        /\ Content(committed) = Content(ScanTitles(EmptyDb, TitleSeq, fs, run))

\* C15: overlapping scans do not corrupt data.  With two invocations of Scan
\* at work, every change of the committed store is one whole title
\* transaction, and whenever both have returned the committed rows are those
\* a single scan produces.
C15_OverlapSafe == []AsSingleScan /\ [][WholeTransaction]_vars

\* the second invocation started while the first was running, both have
\* returned, and titles were committed by the second
C15_Witness ==
    /\ pc = "done" /\ opc = "done"
    /\ overlap
    /\ ocommits = { <<"lib", "A">>, <<"lib2", "B">> }
    /\ \E m \in committed.manga : m.chapter_count = 2

\* C16: natural ordering compares an embedded digit run by its numeric value:
\* of two names that are equal, case aside, but for the value of one digit
\* run, naturalLess(a, b) holds exactly when a's run is the smaller number.
C16_NumericOrder ==
    call.fn = "naturalLess" =>
        (call.out <=> Atoi(call.ra) < Atoi(call.rb))

IsNumeric(t) ==
    /\ t # <<>>
    /\ IsDigit(t[1]) /\ IsDigit(t[Len(t)])
    /\ \A i \in 1..Len(t) : IsDigit(t[i]) \/ t[i] = 46
    /\ Cardinality({ i \in 1..Len(t) : t[i] = 46 }) <= 1

\* the value of such a text as a fraction: its digits over the power of ten
\* of the places after the point
ValueOf(t) ==
    LET dots == { i \in 1..Len(t) : t[i] = 46 }
        places == IF dots = {} THEN 0 ELSE Len(t) - (CHOOSE i \in dots : TRUE)
    IN  [num |-> Atoi(SelectSeq(t, IsDigit)), den |-> Pow10(places)]

\* the first numeric substring of a name: it starts at the first digit and is
\* the longest number that starts there
FirstNumeric(s) ==
    LET from == CHOOSE i \in 1..Len(s) : IsDigit(s[i]) /\ \A j \in 1..(i - 1) : ~IsDigit(s[j])
        to == CHOOSE j \in from..Len(s) :
                /\ IsNumeric(SubSeq(s, from, j))
                /\ \A k \in (j + 1)..Len(s) : ~IsNumeric(SubSeq(s, from, k))
    IN  SubSeq(s, from, to)

\* C18: chapter-number extraction.  parseChapterNumber returns the value of
\* the first numeric substring of the directory name, and returns absent
\* exactly when the name holds no digit; with or without a number the chapter
\* is stored, with that number.
C18_FirstNumber ==
    call.fn = "parseChapterNumber" =>
        /\ call.out.valid <=> \E i \in 1..Len(call.name) : IsDigit(call.name[i])
        /\ call.out.valid =>
              call.out.num * ValueOf(FirstNumeric(call.name)).den =
                  ValueOf(FirstNumeric(call.name)).num * call.out.den
        /\ \E row \in call.rows : row.number = call.out

\* a chapter directory without a number in its name was stored with no number
C18_Witness ==
    /\ call.fn = "parseChapterNumber"
    /\ ~call.out.valid
    /\ \E row \in call.rows : ~row.number.valid

\* C19: cancellation and a chapter collection in flight.  A collectChapter
\* that is running when the ctx is cancelled is never ended by the
\* cancellation: it returns its page list.
C19_CollectionCompletes == flight # "aborted"

\* C20: cancellation between titles.  Scan tests the ctx at the head of every
\* root and of every title directory: once the ctx is cancelled, BeginTx is
\* called for no title but those whose processing had started by then.
C20_NoNewTitle == cancelled => began \subseteq startedAtCancel

\* a scan cancelled after title lib/A had begun returned at a ctx test, and
\* never called BeginTx for title lib2/B
C20_Witness ==
    /\ cancelled
    /\ pc = "done" /\ result = "ctx"
    /\ <<"lib", "A">> \in began
    /\ <<"lib2", "B">> \notin began

\* the chapter and page writes of a title's chapters, in directory order, for
\* the chapters among them that were collected with a page
RECURSIVE ChapterWrites(_, _, _)
ChapterWrites(title, dirs, with) ==
    IF dirs = <<>> THEN <<>>
    ELSE LET c == Join(title, Head(dirs))
         IN  (IF c \in with THEN << <<"chapter", c>>, <<"pages", c>> >> ELSE <<>>)
                 \o ChapterWrites(title, Tail(dirs), with)

\* the writes of a whole title transaction, up to the rollup
TitleWrites(title, with) ==
    << <<"title", title>> >> \o ChapterWrites(title, readChapterDirs(title), with)
        \o << <<"rollup", title>> >>

\* C21: one transaction per qualifying title.  The store changes only while
\* Scan's transaction is open; Scan begins a transaction for a title once in
\* a run; and what a commit commits is, in this order, the title upsert, for
\* each chapter collected with a page its chapter upsert and then its page
\* upserts, and the rollup.
C21_OneTransactionInOrder ==
    [][/\ store' # store => txOpen
       /\ (txOpen' /\ ~txOpen) => (pc = "begin" /\ mangaPath \notin began)
       /\ committed' # committed =>
             /\ txOpen /\ ~txOpen'
             /\ collected # {}
             /\ txLog = TitleWrites(mangaPath, { m.path : m \in collected })
             /\ txLog' = Append(txLog, <<"commit", mangaPath>>)]_vars

\* the transaction of title A has been committed after the title upsert, the
\* writes of its two chapters and the rollup
C21_Witness ==
    /\ ~txOpen /\ store = committed
    /\ txLog = Append(TitleWrites(<<"lib", "A">>, { <<"lib", "A", "c1">>, <<"lib", "A", "c2">> }),
                      <<"commit", <<"lib", "A">> >>)
    /\ \E c \in committed.chapter : c.path = <<"lib", "A", "c2">> /\ c.updated_at = run

\* every page row of the old store is in the new one with the width, height
\* and checksum it had
EnrichmentKept(old, new) ==
    \A p \in old.page :
        \E q \in new.page :
            /\ q.path = p.path
            /\ q.width = p.width /\ q.height = p.height /\ q.checksum = p.checksum

\* C22: the page upserts of a re-scan leave the width, height and checksum of
\* a page row that is already stored as they are.
C22_EnrichmentKept ==
    [][envWrites' = envWrites => EnrichmentKept(committed, committed')]_vars

\* naturalLess is a strict weak ordering of the names in S: irreflexive,
\* transitive, and with a transitive incomparability
StrictWeak(S) ==
    LET tie(a, b) == ~naturalLess(a, b) /\ ~naturalLess(b, a)
    IN  /\ \A a \in S : ~naturalLess(a, a)
        /\ \A a, b, c \in S : naturalLess(a, b) /\ naturalLess(b, c) => naturalLess(a, c)
        /\ \A a, b, c \in S : tie(a, b) /\ tie(b, c) => tie(a, c)

TitleCommitted(t) ==
    /\ \E m \in committed.manga : m.path = t /\ m.updated_at = run
    /\ \A c \in ChaptersOf(t) : ImagesOf(runFs, c) # {} => ChapterWritten(committed, c)

\* C24 as stated: when a storage operation has failed and Scan has returned
\* the error, no title before the failing one is left with rows this run
\* committed.
C24_NoProgressRetained ==
    (pc = "done" /\ failedTitle # NullId) =>
        \A t \in TitlePaths :
            Before(t, failedTitle) => TitleRows(committed, t) = TitleRows(runBase, t)

\* C24 as amended: when a storage operation has failed and Scan has returned
\* the error, the failing title has the rows it had when the run started, and
\* every qualifying title before it is committed as this run wrote it.
C24_EarlierTitlesKept ==
    (pc = "done" /\ failedTitle # NullId) =>
        /\ TitleRows(committed, failedTitle) = TitleRows(runBase, failedTitle)
        /\ \A t \in TitlePaths :
              (Before(t, failedTitle) /\ QualifiesOnDisk(runFs, t)) => TitleCommitted(t)

\* a storage fault failed title B after the first scan had committed title A
C24_Witness ==
    /\ pc = "done" /\ result = "storage" /\ run = 1
    /\ failedTitle = <<"lib2", "B">>
    /\ TitleCommitted(<<"lib", "A">>)
    /\ TitleRows(committed, <<"lib2", "B">>) = NoRows

\* C25: rollup consistency with rows.  In every committed store, the
\* chapter_count of a title is the number of chapter rows under it and its
\* page_count is the number of page rows under those chapters.
C25_RollupMatchesRows ==
    \A m \in committed.manga :
        LET cs == { c \in committed.chapter : c.manga_id = m.id }
            ps == { p \in committed.page : \E c \in cs : p.chapter_id = c.id }
        IN  /\ m.chapter_count = Cardinality(cs)
            /\ m.page_count = Cardinality(ps)

\* C26: transaction lifecycle.  Scan's transaction is open only while Scan is
\* inside a title: between titles, before BeginTx and after Scan has
\* returned, on any path, the transaction is committed or rolled back and the
\* connection is free.
C26_TransactionEnded ==
    pc \in {"idle", "root", "entry", "begin", "done"} => ~txOpen

\* C27: no partial title under cancellation.  Once the ctx is cancelled
\* nothing is committed: whatever a Scan commits is a title with every
\* chapter that holds an image on disk, and the rollup over them, so a
\* chapter skipped because the cancellation cut its collection short is never
\* missing from a committed title.
C27_NoPartialTitle ==
    [][committed' # committed =>
          /\ ~cancelled
          /\ TitleWritten(store)
          /\ committed' = store]_vars

\* the ctx was cancelled after chapter c1 of title A was written and before
\* chapter c2, which holds an image, was collected; Scan has returned and
\* nothing of title A is committed
C27_Witness ==
    /\ pc = "done" /\ run = 1
    /\ cancelled /\ flight = "aborted"
    /\ txChapters = { <<"lib", "A", "c1">> }
    /\ ImagesOf(fs, <<"lib", "A", "c2">>) # {}
    /\ TitleRows(committed, <<"lib", "A">>) = NoRows

\* C28: the page of a response lies within its total.  In every response of
\* getLibrary that carries an item, offset + len(items) is at most the
\* reported total, also when a Scan commits a title between the count query
\* and the list query.
C28_ItemsWithinTotal ==
    (rpc = "idle" /\ reads > 0 /\ Len(items) > 0) =>
        (rreq.page - 1) * rreq.limit + Len(items) <= total

\* the committed applications of the body of a version
BodyApplied(db, v) == { a \in db.applied : a[1] = v }

\* C29: the migration ledger is atomic.  In every state a version is recorded
\* in schema_migrations if and only if its body is applied, once; the body of
\* a recorded version is never run again; when OpenAndMigrate has returned no
\* transaction is left, and when it has returned an error no version from the
\* one it failed at onwards was applied or recorded by it.
C29_LedgerAtomic ==
    /\ \A i \in 1..Len(versions) :
          /\ versions[i] \in mig.db.ledger <=> BodyApplied(mig.db, versions[i]) # {}
          /\ Cardinality(BodyApplied(mig.db, versions[i])) <= 1
    /\ mig.db.ledger # {} => mig.db.table
    /\ ~mig.reapplied
    /\ mig.pc = "closed" => ~mig.txOpen /\ mig.tx = mig.db
    /\ (mig.pc = "closed" /\ mig.errs # <<>> /\ mig.errs[Len(mig.errs)] # "") =>
          \A j \in mig.vi..Len(versions) :
              versions[j] \in mig.db.ledger => versions[j] \in mig.base

\* OpenAndMigrate failed while recording the second migration, and was called
\* again: it found the first recorded, skipped it, and applied the rest
C29_Witness ==
    /\ mig.pc = "closed"
    /\ mig.errs = <<"record migration", "">>
    /\ mig.base = { versions[1] }
    /\ mig.db.ledger = { versions[i] : i \in 1..Len(versions) }
    /\ \A a \in BodyApplied(mig.db, versions[1]) : a[2] = 1
    /\ \A a \in BodyApplied(mig.db, versions[2]) : a[2] = 2

=============================================================================
